---- MODULE Spec2Model ----
(***************************************************************************)
(* Model of the POST /sessions intake of focus-session-logger: the        *)
(* validation cascade, the two-stage media pipeline and the save of the   *)
(* processed record through the Session model.                            *)
(*                                                                         *)
(* Times are milliseconds counted from 2024-01-01T00:00:00Z; a Date is a  *)
(* record [valid, ms] (valid = FALSE is the Date whose getTime() is NaN). *)
(* A JavaScript value of the request body is a record [type, num, str];   *)
(* a text is the sequence of its characters. An optional value is a       *)
(* sequence of length 0 (nothing) or 1.                                   *)
(***************************************************************************)
EXTENDS Integers, Sequences, FiniteSets, TLC

(***************************************************************************)
(* Bounds of the model.                                                    *)
(***************************************************************************)
\* Requests that may be in flight together.
NumReq == 2
\* Last reading of the millisecond clock (Date.now()) the model distinguishes.
MaxClock == 1

Reqs == 1..NumReq

(***************************************************************************)
(* JavaScript values and texts.                                            *)
(***************************************************************************)
Undefined == [type |-> "undefined", num |-> 0, str |-> <<>>]
JsNull    == [type |-> "null",      num |-> 0, str |-> <<>>]
Text(s)   == [type |-> "string",    num |-> 0, str |-> s]
Num(n)    == [type |-> "number",    num |-> n, str |-> <<>>]

\* JavaScript truthiness, as the ! of line 56 uses it.
Falsy(v) ==
  \/ v.type \in {"undefined", "null"}
  \/ v.type = "string" /\ Len(v.str) = 0
  \/ v.type = "number" /\ v.num = 0

WhiteSpace == {" ", "\t", "\n"}

RECURSIVE TrimStart(_)
TrimStart(s) ==
  IF s # <<>> /\ Head(s) \in WhiteSpace THEN TrimStart(Tail(s)) ELSE s

RECURSIVE TrimEnd(_)
TrimEnd(s) ==
  IF s # <<>> /\ s[Len(s)] \in WhiteSpace
  THEN TrimEnd(SubSeq(s, 1, Len(s) - 1))
  ELSE s

\* String.prototype.trim
Trim(s) == TrimEnd(TrimStart(s))

(***************************************************************************)
(* new Date(value).  The texts the model sends are of the day             *)
(* 2024-01-01 ("2024-01-01THH:MM:SSZ" or "2024-01-01THH:MM:SS.mmmZ");     *)
(* every other text of the model is no date.                              *)
(***************************************************************************)
Digits == <<"0", "1", "2", "3", "4", "5", "6", "7", "8", "9">>

IsDigit(c) == \E i \in 1..10 : Digits[i] = c

DigitVal(c) == (CHOOSE i \in 1..10 : Digits[i] = c) - 1

DayPrefix == <<"2", "0", "2", "4", "-", "0", "1", "-", "0", "1", "T">>

InvalidDate == [valid |-> FALSE, ms |-> 0]

DateOfMs(n) == [valid |-> TRUE, ms |-> n]

\* Two decimal digits at positions i, i+1 of s.
TwoDigits(s, i) == 10 * DigitVal(s[i]) + DigitVal(s[i + 1])

ThreeDigits(s, i) ==
  100 * DigitVal(s[i]) + 10 * DigitVal(s[i + 1]) + DigitVal(s[i + 2])

\* Date.parse of a text.
ParseDate(s) ==
  LET n == Len(s)
      shape ==
        /\ n \in {20, 24}
        /\ SubSeq(s, 1, 11) = DayPrefix
        /\ \A i \in {12, 13, 15, 16, 18, 19} : IsDigit(s[i])
        /\ s[14] = ":" /\ s[17] = ":"
        /\ s[n] = "Z"
        /\ n = 24 => (s[20] = "." /\ \A i \in 21..23 : IsDigit(s[i]))
  IN IF ~shape THEN InvalidDate
     ELSE LET hh == TwoDigits(s, 12)
              mm == TwoDigits(s, 15)
              ss == TwoDigits(s, 18)
              frac == IF n = 24 THEN ThreeDigits(s, 21) ELSE 0
              inDay == \/ hh <= 23 /\ mm <= 59 /\ ss <= 59
                       \/ hh = 24 /\ mm = 0 /\ ss = 0 /\ frac = 0
          IN IF ~inDay THEN InvalidDate
             ELSE DateOfMs(((hh * 60 + mm) * 60 + ss) * 1000 + frac)

\* new Date(v).  Only texts and undefined reach it in the model: the time
\* fields of a body are texts, null or absent, and line 56 has returned for
\* null before line 70.
NewDate(v) == IF v.type = "string" THEN ParseDate(v.str) ELSE InvalidDate

\* a <= b on Dates (both converted to numbers; any comparison with NaN is false).
DateLeq(a, b) == a.valid /\ b.valid /\ a.ms <= b.ms

\* a - b on Dates; the result is a number or NaN, written as a Date record.
DateMinus(a, b) ==
  IF a.valid /\ b.valid THEN DateOfMs(a.ms - b.ms) ELSE InvalidDate

(***************************************************************************)
(* The validation cascade of the handler (lines 56-101).                  *)
(***************************************************************************)
MissingFields  == "Missing required fields: userId, startTime, endTime"
BadUserId      == "userId must be a non-empty string"
BadStartTime   == "startTime must be a valid date"
BadEndTime     == "endTime must be a valid date"
EndNotAfter    == "endTime must be after startTime"
TooLong        == "Session duration cannot exceed 8 hours"

\* 8 * 60 * 60 * 1000
maxDuration == 28800000

\* Fault: the presence check tests only for absent and null fields.
AnyFieldMissingNullish(b) ==
  \/ b.userId.type \in {"undefined", "null"}
  \/ b.startTime.type \in {"undefined", "null"}
  \/ b.endTime.type \in {"undefined", "null"}

\* !userId || !startTime || !endTime
AnyFieldMissing(b) == Falsy(b.userId) \/ Falsy(b.startTime) \/ Falsy(b.endTime)

\* Fault: the userId is not trimmed before its length is tested.
UserIdRejectedUntrimmed(u) == u.type # "string" \/ Len(u.str) = 0

\* typeof userId !== 'string' || userId.trim().length === 0
UserIdRejected(u) == u.type # "string" \/ Len(Trim(u.str)) = 0

\* Fault: endDate < startDate, equal times pass.
EndBeforeStartOnly(startDate, endDate) ==
  startDate.valid /\ endDate.valid /\ endDate.ms < startDate.ms

\* endDate <= startDate
EndBeforeOrAtStart(startDate, endDate) == DateLeq(endDate, startDate)

\* Fault: sessionDuration >= maxDuration, the bound taken as exclusive.
DurationReached(sessionDuration) ==
  sessionDuration.valid /\ sessionDuration.ms >= maxDuration

\* sessionDuration > maxDuration
DurationExceeded(sessionDuration) ==
  sessionDuration.valid /\ sessionDuration.ms > maxDuration

\* Fault: the two date checks come before the userId check.
ValidationErrorDatesFirst(b) ==
  LET startDate == NewDate(b.startTime)
      endDate   == NewDate(b.endTime)
  IN IF AnyFieldMissing(b) THEN <<MissingFields>>
     ELSE IF ~startDate.valid THEN <<BadStartTime>>
     ELSE IF ~endDate.valid THEN <<BadEndTime>>
     ELSE IF UserIdRejected(b.userId) THEN <<BadUserId>>
     ELSE IF EndBeforeOrAtStart(startDate, endDate) THEN <<EndNotAfter>>
     ELSE IF DurationExceeded(DateMinus(endDate, startDate)) THEN <<TooLong>>
     ELSE <<>>

\* The error text of the first check that returns, or <<>> when none does.
ValidationError(b) ==
  LET startDate == NewDate(b.startTime)
      endDate   == NewDate(b.endTime)
  IN IF AnyFieldMissing(b) THEN <<MissingFields>>
     ELSE IF UserIdRejected(b.userId) THEN <<BadUserId>>
     ELSE IF ~startDate.valid THEN <<BadStartTime>>
     ELSE IF ~endDate.valid THEN <<BadEndTime>>
     ELSE IF EndBeforeOrAtStart(startDate, endDate) THEN <<EndNotAfter>>
     ELSE IF DurationExceeded(DateMinus(endDate, startDate)) THEN <<TooLong>>
     ELSE <<>>

(***************************************************************************)
(* The request bodies the model sends.                                     *)
(***************************************************************************)
Clock(hhmmss) == Text(DayPrefix \o hhmmss \o <<"Z">>)

T1000    == Clock(<<"1", "0", ":", "0", "0", ":", "0", "0">>)
T1000001 == Clock(<<"1", "0", ":", "0", "0", ":", "0", "0", ".", "0", "0", "1">>)
T1200    == Clock(<<"1", "2", ":", "0", "0", ":", "0", "0">>)
T1800    == Clock(<<"1", "8", ":", "0", "0", ":", "0", "0">>)
T1800001 == Clock(<<"1", "8", ":", "0", "0", ":", "0", "0", ".", "0", "0", "1">>)
T1900    == Clock(<<"1", "9", ":", "0", "0", ":", "0", "0">>)
T2500    == Clock(<<"2", "5", ":", "0", "0", ":", "0", "0">>)
NotADate == Text(<<"s", "o", "o", "n">>)
Empty    == Text(<<>>)
Blank    == Text(<<" ", "\t">>)
Alice    == Text(<<"a", "l", "i", "c", "e">>)
BobPadded == Text(<<" ", "b", "o", "b", " ">>)

Body(u, s, e) == <<[userId |-> u, startTime |-> s, endTime |-> e]>>

\* req.body is undefined (no parsed body reached the handler).
NoBody == <<>>

UserIds    == {Undefined, JsNull, Empty, Blank, Num(42), Alice, BobPadded}
StartTimes == {Undefined, JsNull, Empty, NotADate, T2500, T1000, T1000001, T1200}
EndTimes   == {Undefined, Empty, NotADate, T2500,
               T1000, T1200, T1800, T1800001, T1900}

\* Every combination of the field values, and the absent body.
AllBodies ==
  {NoBody} \cup {Body(u, s, e) : u \in UserIds, s \in StartTimes, e \in EndTimes}

\* One body for each way the handler can leave its synchronous part.
CoreBodies ==
  { NoBody,
    Body(Empty, T1000, T1200),
    Body(Blank, T1000, T1200),
    Body(Alice, NotADate, T1200),
    Body(Alice, T1000, T2500),
    Body(Alice, T1200, T1000),
    Body(Alice, T1000, T1900),
    Body(BobPadded, T1000, T1800) }

\* Math.random().toString(36)
RandomTexts == {"0.a1", "0.b2"}

(***************************************************************************)
(* State.                                                                  *)
(***************************************************************************)
VARIABLES
  now,          \* Date.now()
  nextOid,      \* the ObjectId the next constructed Session document gets
  store,        \* the documents of the sessions collection
  pc,           \* where the handler of each request stands
  body,         \* req.body of each request
  sessionId,    \* the handler's sessionId, once generated
  sessionData,  \* the handler's sessionData object, once constructed
  newSession,   \* the handler's Session document, once constructed
  stage,        \* the promise of each stage call: idle, running, done, failed
  stageRuns,    \* how many times each stage was called
  saveCalls,    \* how many times newSession.save() was called
  saveState,    \* the promise of save(): idle, pending, resolved, rejected
  responses     \* what was sent on res, in order

vars == <<now, nextOid, store, pc, body, sessionId, sessionData, newSession,
          stage, stageRuns, saveCalls, saveState, responses>>

Terminal ==
  {"Persisted", "Rejected", "ProcessingFailed", "PersistenceFailed",
   "InternalError"}

Init ==
  /\ now = 0
  /\ nextOid = 1
  /\ store = {}
  /\ pc = [r \in Reqs |-> "Idle"]
  /\ body = [r \in Reqs |-> NoBody]
  /\ sessionId = [r \in Reqs |-> <<>>]
  /\ sessionData = [r \in Reqs |-> <<>>]
  /\ newSession = [r \in Reqs |-> <<>>]
  /\ stage = [r \in Reqs |-> [compress |-> "idle", extractAudio |-> "idle"]]
  /\ stageRuns = [r \in Reqs |-> [compress |-> 0, extractAudio |-> 0]]
  /\ saveCalls = [r \in Reqs |-> 0]
  /\ saveState = [r \in Reqs |-> "idle"]
  /\ responses = [r \in Reqs |-> <<>>]

(***************************************************************************)
(* The Session model (Session.js) and the responses of the handler.        *)
(***************************************************************************)
\* Fault: the document takes the schema's default for createdAt (Date.now
\* at its construction) instead of the value of data.
SessionDefaultCreatedAt(data, oid) ==
  [_id       |-> oid,
   userId    |-> data.userId,
   startTime |-> data.startTime,
   endTime   |-> data.endTime,
   media     |-> [compressed     |-> data.media.compressed,
                  audioExtracted |-> data.media.audioExtracted],
   createdAt |-> now]

\* new Session(data): the schema's fields of data, and the document's _id.
\* The defaults of media.* and createdAt apply to fields data lacks; the
\* handler's sessionData has them all.
Session(data, oid) ==
  [_id       |-> oid,
   userId    |-> data.userId,
   startTime |-> data.startTime,
   endTime   |-> data.endTime,
   media     |-> [compressed     |-> data.media.compressed,
                  audioExtracted |-> data.media.audioExtracted],
   createdAt |-> data.createdAt]

\* res.status(400).json({ error })
RejectedResponse(reason) == [status |-> 400, error |-> reason]

\* Fault: the processing failure is answered with the status of a
\* validation failure.
ProcessingFailedResponse400(sid, data) ==
  [status |-> 400, error |-> "Media processing failed",
   sessionId |-> sid, sessionData |-> data]

\* res.status(500).json({ error: 'Media processing failed', sessionId, sessionData })
ProcessingFailedResponse(sid, data) ==
  [status |-> 500, error |-> "Media processing failed",
   sessionId |-> sid, sessionData |-> data]

\* res.status(500).json({ error: 'Failed to save session to database', ... })
PersistenceFailedResponse(sid, data) ==
  [status |-> 500, error |-> "Failed to save session to database",
   sessionId |-> sid, sessionData |-> data]

\* res.status(201).json({ message, sessionId, databaseId, sessionData })
CreatedResponse(sid, savedSession) ==
  [status |-> 201,
   message |-> "Session created, processed, and saved successfully",
   sessionId |-> sid, databaseId |-> savedSession._id,
   sessionData |-> savedSession]

\* res.status(500).json({ error: 'Internal server error', message })
InternalErrorResponse ==
  [status |-> 500, error |-> "Internal server error",
   message |-> "An unexpected error occurred while processing the session"]

Send(r, resp) == responses' = [responses EXCEPT ![r] = Append(@, resp)]

(***************************************************************************)
(* The steps of a request.  The handler runs without interruption from    *)
(* one await to the next.                                                  *)
(***************************************************************************)
\* The millisecond clock advances.
Tick ==
  /\ now < MaxClock
  /\ now' = now + 1
  /\ UNCHANGED <<nextOid, store, pc, body, sessionId, sessionData, newSession,
                 stage, stageRuns, saveCalls, saveState, responses>>

\* A POST /sessions request reaches the route with body b.
Arrive(r, b) ==
  /\ pc[r] = "Idle"
  /\ pc' = [pc EXCEPT ![r] = "Received"]
  /\ body' = [body EXCEPT ![r] = b]
  /\ UNCHANGED <<now, nextOid, store, sessionId, sessionData, newSession,
                 stage, stageRuns, saveCalls, saveState, responses>>

\* Fault: no outer catch; the TypeError of line 53 escapes the handler and
\* nothing is sent.
HandleNoBodyUncaught(r) ==
  /\ pc' = [pc EXCEPT ![r] = "InternalError"]
  /\ UNCHANGED <<sessionId, sessionData, stage, stageRuns, responses>>

\* Line 53 throws for an undefined req.body; the outer catch answers.
HandleNoBody(r) ==
  /\ pc' = [pc EXCEPT ![r] = "InternalError"]
  /\ Send(r, InternalErrorResponse)
  /\ UNCHANGED <<sessionId, sessionData, stage, stageRuns>>

\* Fault: the 400 is sent without a return, and the handler goes on to
\* build the record and to call the first stage.
HandleRejectedNoReturn(r, reason) ==
  /\ Send(r, RejectedResponse(reason))
  /\ sessionId' = [sessionId EXCEPT ![r] = <<[t |-> now, rnd |-> "0.a1"]>>]
  /\ sessionData' = [sessionData EXCEPT ![r] =
        <<[userId    |-> Trim(body[r][1].userId.str),
           startTime |-> NewDate(body[r][1].startTime),
           endTime   |-> NewDate(body[r][1].endTime),
           media     |-> [compressed |-> FALSE, audioExtracted |-> FALSE],
           createdAt |-> now]>>]
  /\ stage' = [stage EXCEPT ![r].compress = "running"]
  /\ stageRuns' = [stageRuns EXCEPT ![r].compress = @ + 1]
  /\ pc' = [pc EXCEPT ![r] = "Compressing"]

\* One of the checks of lines 56-101 returns its 400.
HandleRejected(r, reason) ==
  /\ pc' = [pc EXCEPT ![r] = "Rejected"]
  /\ Send(r, RejectedResponse(reason))
  /\ UNCHANGED <<sessionId, sessionData, stage, stageRuns>>

\* Fault: the record takes the userId as it was sent, untrimmed.
HandleAcceptedUntrimmed(r, b, rnd) ==
  /\ sessionId' = [sessionId EXCEPT ![r] = <<[t |-> now, rnd |-> rnd]>>]
  /\ sessionData' = [sessionData EXCEPT ![r] =
        <<[userId    |-> b.userId.str,
           startTime |-> NewDate(b.startTime),
           endTime   |-> NewDate(b.endTime),
           media     |-> [compressed |-> FALSE, audioExtracted |-> FALSE],
           createdAt |-> now]>>]
  /\ stage' = [stage EXCEPT ![r].compress = "running"]
  /\ stageRuns' = [stageRuns EXCEPT ![r].compress = @ + 1]
  /\ pc' = [pc EXCEPT ![r] = "Compressing"]
  /\ UNCHANGED responses

\* Fault: both stages are called at once (as with Promise.all).
HandleAcceptedBothStages(r, b, rnd) ==
  /\ sessionId' = [sessionId EXCEPT ![r] = <<[t |-> now, rnd |-> rnd]>>]
  /\ sessionData' = [sessionData EXCEPT ![r] =
        <<[userId    |-> Trim(b.userId.str),
           startTime |-> NewDate(b.startTime),
           endTime   |-> NewDate(b.endTime),
           media     |-> [compressed |-> FALSE, audioExtracted |-> FALSE],
           createdAt |-> now]>>]
  /\ stage' = [stage EXCEPT ![r].compress = "running",
                            ![r].extractAudio = "running"]
  /\ stageRuns' = [stageRuns EXCEPT ![r].compress = @ + 1,
                                    ![r].extractAudio = @ + 1]
  /\ pc' = [pc EXCEPT ![r] = "Compressing"]
  /\ UNCHANGED responses

\* Lines 103-123: the sessionId, the sessionData object, and the call of
\* simulateVideoCompression, at whose await the handler suspends.
HandleAccepted(r, b, rnd) ==
  /\ sessionId' = [sessionId EXCEPT ![r] = <<[t |-> now, rnd |-> rnd]>>]
  /\ sessionData' = [sessionData EXCEPT ![r] =
        <<[userId    |-> Trim(b.userId.str),
           startTime |-> NewDate(b.startTime),
           endTime   |-> NewDate(b.endTime),
           media     |-> [compressed |-> FALSE, audioExtracted |-> FALSE],
           createdAt |-> now]>>]
  /\ stage' = [stage EXCEPT ![r].compress = "running"]
  /\ stageRuns' = [stageRuns EXCEPT ![r].compress = @ + 1]
  /\ pc' = [pc EXCEPT ![r] = "Compressing"]
  /\ UNCHANGED responses

\* Fault: the handler takes a request only while no other request is in
\* its pipeline (the requests are served one after the other).
HandleSerial(r) ==
  /\ pc[r] = "Received"
  /\ \A q \in Reqs : pc[q] \notin {"Compressing", "Extracting", "Saving"}
  /\ IF body[r] = NoBody
     THEN HandleNoBody(r)
     ELSE LET b == body[r][1]
              err == ValidationError(b)
          IN IF err # <<>>
             THEN HandleRejected(r, err[1])
             ELSE \E rnd \in RandomTexts : HandleAccepted(r, b, rnd)
  /\ UNCHANGED <<now, nextOid, store, body, newSession, saveCalls, saveState>>

\* The handler from its entry to its first return or await (lines 52-123).
Handle(r) ==
  /\ pc[r] = "Received"
  /\ IF body[r] = NoBody
     THEN HandleNoBody(r)
     ELSE LET b == body[r][1]
              err == ValidationError(b)
          IN IF err # <<>>
             THEN HandleRejected(r, err[1])
             ELSE \E rnd \in RandomTexts : HandleAccepted(r, b, rnd)
  /\ UNCHANGED <<now, nextOid, store, body, newSession, saveCalls, saveState>>

\* The catch of lines 131-138.
ProcessingFailed(r) ==
  /\ Send(r, ProcessingFailedResponse(sessionId[r][1], sessionData[r][1]))
  /\ pc' = [pc EXCEPT ![r] = "ProcessingFailed"]

\* Fault: line 124 is missing, the compressed flag is never set.
CompressResolveNoFlag(r) ==
  /\ pc[r] = "Compressing"
  /\ stage' = [stage EXCEPT ![r].compress = "done",
                            ![r].extractAudio = "running"]
  /\ stageRuns' = [stageRuns EXCEPT ![r].extractAudio = @ + 1]
  /\ pc' = [pc EXCEPT ![r] = "Extracting"]
  /\ UNCHANGED <<now, nextOid, store, body, sessionId, sessionData, newSession,
                 saveCalls, saveState, responses>>

\* Fault: the media object is one module-level object shared by the
\* requests, so line 124 sets the flag of every record in flight.
CompressResolveShared(r) ==
  /\ pc[r] = "Compressing"
  /\ sessionData' =
       [q \in Reqs |->
          IF sessionData[q] = <<>> THEN <<>>
          ELSE <<[sessionData[q][1] EXCEPT !.media.compressed = TRUE]>>]
  /\ stage' = [stage EXCEPT ![r].compress = "done",
                            ![r].extractAudio = "running"]
  /\ stageRuns' = [stageRuns EXCEPT ![r].extractAudio = @ + 1]
  /\ pc' = [pc EXCEPT ![r] = "Extracting"]
  /\ UNCHANGED <<now, nextOid, store, body, sessionId, newSession, saveCalls,
                 saveState, responses>>

\* simulateVideoCompression resolves: line 124, then the call of line 127.
CompressResolve(r) ==
  /\ pc[r] = "Compressing"
  /\ sessionData' = [sessionData EXCEPT ![r][1].media.compressed = TRUE]
  /\ stage' = [stage EXCEPT ![r].compress = "done",
                            ![r].extractAudio = "running"]
  /\ stageRuns' = [stageRuns EXCEPT ![r].extractAudio = @ + 1]
  /\ pc' = [pc EXCEPT ![r] = "Extracting"]
  /\ UNCHANGED <<now, nextOid, store, body, sessionId, newSession, saveCalls,
                 saveState, responses>>

\* Fault: the rejection of the compression is swallowed and the extraction
\* is called all the same.
CompressRejectContinue(r) ==
  /\ pc[r] = "Compressing"
  /\ stage' = [stage EXCEPT ![r].compress = "failed",
                            ![r].extractAudio = "running"]
  /\ stageRuns' = [stageRuns EXCEPT ![r].extractAudio = @ + 1]
  /\ pc' = [pc EXCEPT ![r] = "Extracting"]
  /\ UNCHANGED <<now, nextOid, store, body, sessionId, sessionData, newSession,
                 saveCalls, saveState, responses>>

\* Fault: a rejected compression is called again.
CompressRejectRetry(r) ==
  /\ pc[r] = "Compressing"
  /\ stageRuns' = [stageRuns EXCEPT ![r].compress = @ + 1]
  /\ UNCHANGED <<now, nextOid, store, pc, body, sessionId, sessionData,
                 newSession, stage, saveCalls, saveState, responses>>

\* The awaited compression rejects.
CompressReject(r) ==
  /\ pc[r] = "Compressing"
  /\ stage' = [stage EXCEPT ![r].compress = "failed"]
  /\ ProcessingFailed(r)
  /\ UNCHANGED <<now, nextOid, store, body, sessionId, sessionData,
                 newSession, stageRuns, saveCalls, saveState>>

\* simulateAudioExtraction resolves: line 128, then lines 142-145, the
\* Session document and the call of save().
ExtractResolve(r) ==
  /\ pc[r] = "Extracting"
  /\ sessionData' = [sessionData EXCEPT ![r][1].media.audioExtracted = TRUE]
  /\ stage' = [stage EXCEPT ![r].extractAudio = "done"]
  /\ newSession' = [newSession EXCEPT ![r] =
                       <<Session(sessionData'[r][1], nextOid)>>]
  /\ nextOid' = nextOid + 1
  /\ saveCalls' = [saveCalls EXCEPT ![r] = @ + 1]
  /\ saveState' = [saveState EXCEPT ![r] = "pending"]
  /\ pc' = [pc EXCEPT ![r] = "Saving"]
  /\ UNCHANGED <<now, store, body, sessionId, stageRuns, responses>>

\* Fault: the rejection of the extraction is swallowed, and the record is
\* saved with the flags it has.
ExtractRejectPersistPartial(r) ==
  /\ pc[r] = "Extracting"
  /\ stage' = [stage EXCEPT ![r].extractAudio = "failed"]
  /\ newSession' = [newSession EXCEPT ![r] =
                       <<Session(sessionData[r][1], nextOid)>>]
  /\ nextOid' = nextOid + 1
  /\ saveCalls' = [saveCalls EXCEPT ![r] = @ + 1]
  /\ saveState' = [saveState EXCEPT ![r] = "pending"]
  /\ pc' = [pc EXCEPT ![r] = "Saving"]
  /\ UNCHANGED <<now, store, body, sessionId, sessionData, stageRuns,
                 responses>>

\* The awaited extraction rejects.
ExtractReject(r) ==
  /\ pc[r] = "Extracting"
  /\ stage' = [stage EXCEPT ![r].extractAudio = "failed"]
  /\ ProcessingFailed(r)
  /\ UNCHANGED <<now, nextOid, store, body, sessionId, sessionData,
                 newSession, stageRuns, saveCalls, saveState>>

\* Fault: the document is written, and the request is then answered by the
\* catch of the save.
SaveResolveThenCatch(r) ==
  /\ pc[r] = "Saving"
  /\ store' = store \cup {newSession[r][1]}
  /\ Send(r, PersistenceFailedResponse(sessionId[r][1], sessionData[r][1]))
  /\ saveState' = [saveState EXCEPT ![r] = "resolved"]
  /\ pc' = [pc EXCEPT ![r] = "PersistenceFailed"]
  /\ UNCHANGED <<now, nextOid, body, sessionId, sessionData, newSession,
                 stage, stageRuns, saveCalls>>

\* save() resolves with the stored document: lines 146-153.
SaveResolve(r) ==
  /\ pc[r] = "Saving"
  /\ store' = store \cup {newSession[r][1]}
  /\ Send(r, CreatedResponse(sessionId[r][1], newSession[r][1]))
  /\ saveState' = [saveState EXCEPT ![r] = "resolved"]
  /\ pc' = [pc EXCEPT ![r] = "Persisted"]
  /\ UNCHANGED <<now, nextOid, body, sessionId, sessionData, newSession,
                 stage, stageRuns, saveCalls>>

\* Fault: save() is not awaited; its rejection is lost and the 201 is sent.
SaveRejectUnawaited(r) ==
  /\ pc[r] = "Saving"
  /\ Send(r, CreatedResponse(sessionId[r][1], newSession[r][1]))
  /\ saveState' = [saveState EXCEPT ![r] = "rejected"]
  /\ pc' = [pc EXCEPT ![r] = "Persisted"]
  /\ UNCHANGED <<now, nextOid, store, body, sessionId, sessionData,
                 newSession, stage, stageRuns, saveCalls>>

\* save() rejects: the catch of lines 155-162.
SaveReject(r) ==
  /\ pc[r] = "Saving"
  /\ Send(r, PersistenceFailedResponse(sessionId[r][1], sessionData[r][1]))
  /\ saveState' = [saveState EXCEPT ![r] = "rejected"]
  /\ pc' = [pc EXCEPT ![r] = "PersistenceFailed"]
  /\ UNCHANGED <<now, nextOid, store, body, sessionId, sessionData,
                 newSession, stage, stageRuns, saveCalls>>

(***************************************************************************)
(* Specifications.                                                         *)
(***************************************************************************)
\* NumReq requests in flight together, each with one of the CoreBodies.
Next ==
  \/ Tick
  \/ \E r \in Reqs :
       \/ \E b \in CoreBodies : Arrive(r, b)
       \/ Handle(r)
       \/ CompressResolve(r)
       \/ CompressReject(r)
       \/ ExtractResolve(r)
       \/ ExtractReject(r)
       \/ SaveResolve(r)
       \/ SaveReject(r)

Spec == Init /\ [][Next]_vars

\* One request, with any of AllBodies.
NextOne ==
  \/ Tick
  \/ \E b \in AllBodies : Arrive(1, b)
  \/ Handle(1)
  \/ CompressResolve(1)
  \/ CompressReject(1)
  \/ ExtractResolve(1)
  \/ ExtractReject(1)
  \/ SaveResolve(1)
  \/ SaveReject(1)

SpecOne == Init /\ [][NextOne]_vars

\* A received request is handled, a started stage settles (its timer
\* fires), and a called save() settles.
FairOne ==
  /\ SpecOne
  /\ WF_vars(Handle(1))
  /\ WF_vars(CompressResolve(1) \/ CompressReject(1))
  /\ WF_vars(ExtractResolve(1) \/ ExtractReject(1))
  /\ WF_vars(SaveResolve(1) \/ SaveReject(1))

\* The bodies of the stalled-stage specification: one that passes the
\* validation, one that fails it, and the absent body.
StallBodies == {NoBody, Body(Empty, T1000, T1800), Body(BobPadded, T1000, T1800)}

NextStall ==
  \/ Tick
  \/ \E r \in Reqs :
       \/ \E b \in StallBodies : Arrive(r, b)
       \/ Handle(r)
       \/ CompressResolve(r)
       \/ CompressReject(r)
       \/ ExtractResolve(r)
       \/ ExtractReject(r)
       \/ SaveResolve(r)
       \/ SaveReject(r)

\* The requests in flight together, where the stages of request 1 may
\* never complete: every received request is handled and every called
\* save() settles, and the stages of every other request settle.
FairStall ==
  /\ Init /\ [][NextStall]_vars
  /\ \A r \in Reqs :
       /\ WF_vars(Handle(r))
       /\ WF_vars(SaveResolve(r) \/ SaveReject(r))
  /\ \A r \in Reqs \ {1} :
       /\ WF_vars(CompressResolve(r) \/ CompressReject(r))
       /\ WF_vars(ExtractResolve(r) \/ ExtractReject(r))

(***************************************************************************)
(* Vocabulary of the claims.                                               *)
(***************************************************************************)
Handled(r) == pc[r] \notin {"Idle", "Received"}

IsText(v) == v.type = "string"

\* The field is there, is not null and is not the empty text.
Present(v) == v.type \notin {"undefined", "null"} /\ ~(IsText(v) /\ v.str = <<>>)

\* The field is a text that denotes a point in time.
PointInTime(v) == IsText(v) /\ ParseDate(v.str).valid

MsOf(v) == ParseDate(v.str).ms

BothTimes(b) == PointInTime(b.startTime) /\ PointInTime(b.endTime)

Duration(b) == MsOf(b.endTime) - MsOf(b.startTime)

EightHours == 8 * 60 * 60 * 1000

NonBlankText(v) == IsText(v) /\ Trim(v.str) # <<>>

\* Rule k of the validator, in the order of section 4.1, is violated by b.
Violates(k, b) ==
  CASE k = 1 -> ~Present(b.userId) \/ ~Present(b.startTime) \/ ~Present(b.endTime)
    [] k = 2 -> ~NonBlankText(b.userId)
    [] k = 3 -> ~PointInTime(b.startTime)
    [] k = 4 -> ~PointInTime(b.endTime)
    [] k = 5 -> BothTimes(b) /\ ~(MsOf(b.endTime) > MsOf(b.startTime))
    [] k = 6 -> BothTimes(b) /\ Duration(b) > EightHours

ViolatesSome(b) == \E k \in 1..6 : Violates(k, b)

LowestViolated(b) ==
  CHOOSE k \in 1..6 : Violates(k, b) /\ \A j \in 1..(k - 1) : ~Violates(j, b)

RuleReason ==
  <<"Missing required fields: userId, startTime, endTime",
    "userId must be a non-empty string",
    "startTime must be a valid date",
    "endTime must be a valid date",
    "endTime must be after startTime",
    "Session duration cannot exceed 8 hours">>

GoodInput(b) ==
  /\ NonBlankText(b.userId)
  /\ BothTimes(b)
  /\ 0 < Duration(b)
  /\ Duration(b) <= EightHours

BothFlags == [compressed |-> TRUE, audioExtracted |-> TRUE]

\* Request r has reached Persisted with a fully processed record.
PersistedOK(r) ==
  /\ pc[r] = "Persisted"
  /\ sessionData[r][1].media = BothFlags
  /\ newSession[r][1] \in store
  /\ newSession[r][1].media = BothFlags
  /\ Len(responses[r]) = 1
  /\ responses[r][1].status = 201
  /\ responses[r][1].sessionData.media = BothFlags

SomethingFailed(r) ==
  \/ stage[r].compress = "failed"
  \/ stage[r].extractAudio = "failed"
  \/ saveState[r] = "rejected"

(***************************************************************************)
(* Claims.                                                                 *)
(***************************************************************************)
\* C1: a received request whose userId is a text that is non-empty after
\* trimming, whose startTime and endTime are points in time and whose
\* duration is over 0 and at most 8 hours eventually reaches Persisted with
\* media.compressed and media.audioExtracted both true, unless one of its
\* stages or its save fails; and whenever its save has succeeded it is in
\* Persisted with both flags true.
C1_ValidInputPersisted ==
  /\ [](\A r \in Reqs : saveState[r] = "resolved" => PersistedOK(r))
  /\ \A r \in Reqs :
       (pc[r] = "Received" /\ body[r] # NoBody /\ GoodInput(body[r][1]))
         ~> (PersistedOK(r) \/ SomethingFailed(r))

\* C1 witness: a request of exactly 8 hours has been persisted.
C1_Witness ==
  \E r \in Reqs :
    /\ body[r] # NoBody
    /\ GoodInput(body[r][1])
    /\ Duration(body[r][1]) = EightHours
    /\ PersistedOK(r)

\* C2: for a body that violates a validation rule, the request is Rejected
\* once handled, and in all of its run no stage is started, no Session
\* document is built and save() is never called.
C2_InvalidNeverProcessed ==
  \A r \in Reqs :
    (body[r] # NoBody /\ ViolatesSome(body[r][1])) =>
      /\ pc[r] \in {"Received", "Rejected"}
      /\ stage[r] = [compress |-> "idle", extractAudio |-> "idle"]
      /\ stageRuns[r] = [compress |-> 0, extractAudio |-> 0]
      /\ saveCalls[r] = 0
      /\ saveState[r] = "idle"
      /\ newSession[r] = <<>>
      /\ sessionData[r] = <<>>

\* C2 witness: a body that violates only the duration rule has been rejected.
C2_Witness ==
  \E r \in Reqs :
    /\ pc[r] = "Rejected"
    /\ body[r] # NoBody
    /\ LowestViolated(body[r][1]) = 6

EmptyUserIdTwoHours(b) ==
  /\ b.userId = Text(<<>>)
  /\ BothTimes(b)
  /\ Duration(b) = 2 * 60 * 60 * 1000

\* C4 as claimed: an empty-string userId with valid times 2 hours apart is
\* rejected with the reason "userId must be a non-empty string".
C4_EmptyUserIdReasonClaimed ==
  \A r \in Reqs :
    (Handled(r) /\ body[r] # NoBody /\ EmptyUserIdTwoHours(body[r][1])) =>
      /\ pc[r] = "Rejected"
      /\ responses[r] =
           <<[status |-> 400, error |-> "userId must be a non-empty string"]>>

\* C4 as amended: an empty-string userId with valid times 2 hours apart is
\* rejected with the reason "Missing required fields: userId, startTime,
\* endTime".
C4_EmptyUserIdMissingFields ==
  \A r \in Reqs :
    (Handled(r) /\ body[r] # NoBody /\ EmptyUserIdTwoHours(body[r][1])) =>
      /\ pc[r] = "Rejected"
      /\ responses[r] =
           <<[status |-> 400,
              error |-> "Missing required fields: userId, startTime, endTime"]>>

\* C4 witness: such a request has been handled.
C4_Witness ==
  \E r \in Reqs :
    Handled(r) /\ body[r] # NoBody /\ EmptyUserIdTwoHours(body[r][1])

\* C5: for a body with a non-blank text userId and two points in time, a
\* duration of exactly 28,800,000 ms is accepted and the pipeline starts;
\* 28,800,001 ms is rejected with "Session duration cannot exceed 8 hours";
\* equal times are rejected with "endTime must be after startTime".
C5_DurationBoundInclusive ==
  \A r \in Reqs :
    (/\ Handled(r)
     /\ body[r] # NoBody
     /\ NonBlankText(body[r][1].userId)
     /\ BothTimes(body[r][1])) =>
      /\ Duration(body[r][1]) = 28800000 =>
           /\ pc[r] # "Rejected"
           /\ stageRuns[r].compress = 1
           /\ \A i \in 1..Len(responses[r]) : responses[r][i].status # 400
      /\ Duration(body[r][1]) = 28800001 =>
           /\ pc[r] = "Rejected"
           /\ responses[r] =
                <<[status |-> 400,
                   error |-> "Session duration cannot exceed 8 hours"]>>
      /\ Duration(body[r][1]) = 0 =>
           /\ pc[r] = "Rejected"
           /\ responses[r] =
                <<[status |-> 400, error |-> "endTime must be after startTime"]>>

\* C5 witness: a request of exactly 28,800,000 ms is in the pipeline.
C5_Witness ==
  \E r \in Reqs :
    /\ pc[r] = "Compressing"
    /\ Duration(body[r][1]) = 28800000

\* The one response of a request that has ended.
Reply(r) == responses[r][1]

\* C6: if the compression fails, media.compressed stays false, the audio
\* extraction is never started and the request is ProcessingFailed; if the
\* compression succeeds and the extraction fails, the record has compressed
\* true and audioExtracted false; in both cases the one response carries the
\* sessionId and that partial record, and nothing is saved for the request.
C6_PartialFailure ==
  \A r \in Reqs :
    /\ stage[r].compress = "failed" =>
         /\ pc[r] = "ProcessingFailed"
         /\ sessionData[r][1].media =
              [compressed |-> FALSE, audioExtracted |-> FALSE]
         /\ stage[r].extractAudio = "idle"
         /\ stageRuns[r].extractAudio = 0
    /\ stage[r].extractAudio = "failed" =>
         /\ pc[r] = "ProcessingFailed"
         /\ stage[r].compress = "done"
         /\ sessionData[r][1].media =
              [compressed |-> TRUE, audioExtracted |-> FALSE]
    /\ (stage[r].compress = "failed" \/ stage[r].extractAudio = "failed") =>
         /\ responses[r] =
              <<[status |-> 500, error |-> "Media processing failed",
                 sessionId |-> sessionId[r][1],
                 sessionData |-> sessionData[r][1]]>>
         /\ saveCalls[r] = 0
         /\ saveState[r] = "idle"
         /\ newSession[r] = <<>>

\* C6 witness: one request failed in the compression, another in the
\* extraction.
C6_Witness ==
  \E r, q \in Reqs :
    /\ stage[r].compress = "failed"
    /\ stage[q].extractAudio = "failed"
    /\ pc[r] = "ProcessingFailed"
    /\ pc[q] = "ProcessingFailed"

\* C7: if both stages succeeded and save() failed, the request is
\* PersistenceFailed, its one response carries the sessionId and the record
\* with both flags true, and neither a databaseId nor a document _id.
C7_PersistenceFailure ==
  \A r \in Reqs :
    saveState[r] = "rejected" =>
      /\ stage[r] = [compress |-> "done", extractAudio |-> "done"]
      /\ pc[r] = "PersistenceFailed"
      /\ Len(responses[r]) = 1
      /\ Reply(r).status = 500
      /\ Reply(r).error = "Failed to save session to database"
      /\ Reply(r).sessionId = sessionId[r][1]
      /\ Reply(r).sessionData = sessionData[r][1]
      /\ Reply(r).sessionData.media = BothFlags
      /\ "databaseId" \notin DOMAIN Reply(r)
      /\ "_id" \notin DOMAIN Reply(r).sessionData
      /\ newSession[r][1] \notin store

\* C7 witness: a save has failed.
C7_Witness ==
  \E r \in Reqs : saveState[r] = "rejected" /\ pc[r] = "PersistenceFailed"

Media(r) == sessionData[r][1].media

\* C8: in every state of a request's record audioExtracted implies
\* compressed and a flag is true only if its own stage has completed; both
\* flags are false when the record is constructed; no flag goes from true
\* back to false.
C8_FlagOrder ==
  /\ [](\A r \in Reqs :
          sessionData[r] # <<>> =>
            /\ Media(r).audioExtracted => Media(r).compressed
            /\ Media(r).compressed => stage[r].compress = "done"
            /\ Media(r).audioExtracted => stage[r].extractAudio = "done")
  /\ [][\A r \in Reqs :
          /\ (sessionData[r] = <<>> /\ sessionData'[r] # <<>>) =>
               sessionData'[r][1].media =
                 [compressed |-> FALSE, audioExtracted |-> FALSE]
          /\ sessionData[r] # <<>> =>
               /\ sessionData'[r] # <<>>
               /\ Media(r).compressed => sessionData'[r][1].media.compressed
               /\ Media(r).audioExtracted =>
                    sessionData'[r][1].media.audioExtracted]_vars

\* C8 witness: a record with both flags true.
C8_Witness ==
  \E r \in Reqs : sessionData[r] # <<>> /\ Media(r) = BothFlags

\* C9: the extraction of a request is started only when its compression has
\* completed, and the two stages of a request are never both in progress.
C9_StagesSequential ==
  \A r \in Reqs :
    /\ (stage[r].extractAudio # "idle" \/ stageRuns[r].extractAudio > 0) =>
         stage[r].compress = "done"
    /\ ~(stage[r].compress = "running" /\ stage[r].extractAudio = "running")

\* C9 witness: an extraction in progress.
C9_Witness ==
  \E r \in Reqs : stage[r].extractAudio = "running" /\ pc[r] = "Extracting"

Failed(r) ==
  pc[r] \in {"Rejected", "ProcessingFailed", "PersistenceFailed", "InternalError"}

FailureKind(r) ==
  CASE pc[r] = "Rejected" -> "validation"
    [] pc[r] \in {"ProcessingFailed", "PersistenceFailed"} -> "processing"
    [] pc[r] = "InternalError" -> "internal"

\* C10 as claimed: failures of the same kind (validation; processing or
\* persistence; internal) have the same status, failures of different kinds
\* have different statuses.
C10_ThreeStatusCategoriesClaimed ==
  \A r, q \in Reqs :
    (Failed(r) /\ Failed(q)) =>
      (FailureKind(r) = FailureKind(q) <=> Reply(r).status = Reply(q).status)

\* C10 as amended: every validation failure has status 400; processing
\* failures, persistence failures and internal faults all have status 500,
\* and an internal fault differs from the other two by its error text and by
\* carrying neither sessionId nor sessionData.
C10_TwoStatusCategories ==
  \A r \in Reqs :
    Failed(r) =>
      /\ Len(responses[r]) = 1
      /\ FailureKind(r) = "validation" => Reply(r).status = 400
      /\ FailureKind(r) = "processing" =>
           /\ Reply(r).status = 500
           /\ Reply(r).error \in {"Media processing failed",
                                  "Failed to save session to database"}
           /\ {"sessionId", "sessionData"} \subseteq DOMAIN Reply(r)
      /\ FailureKind(r) = "internal" =>
           /\ Reply(r).status = 500
           /\ Reply(r).error = "Internal server error"
           /\ {"sessionId", "sessionData"} \cap DOMAIN Reply(r) = {}

\* C10 witness: an internal fault and a processing failure, both answered.
C10_Witness ==
  \E r, q \in Reqs :
    /\ pc[r] = "InternalError"
    /\ pc[q] \in {"ProcessingFailed", "PersistenceFailed"}
    /\ Reply(r).status = Reply(q).status

\* C11: the unexpected fault of the handler, the TypeError that reading an
\* undefined req.body raises, is caught: the request ends in InternalError
\* with the one response 500 "Internal server error", which carries neither
\* sessionId nor sessionData and whose error text is that of no Rejected,
\* ProcessingFailed or PersistenceFailed response; and no other request
\* ends in InternalError.
C11_InternalFault ==
  \A r \in Reqs :
    /\ (Handled(r) /\ body[r] = NoBody) =>
         /\ pc[r] = "InternalError"
         /\ responses[r] =
              <<[status |-> 500, error |-> "Internal server error",
                 message |->
                   "An unexpected error occurred while processing the session"]>>
         /\ sessionId[r] = <<>>
         /\ sessionData[r] = <<>>
         /\ \A q \in Reqs :
              pc[q] \in {"Rejected", "ProcessingFailed", "PersistenceFailed"} =>
                Reply(q).error # Reply(r).error
    /\ pc[r] = "InternalError" => body[r] = NoBody

\* C11 witness: one request ended in InternalError while another was
\* rejected.
C11_Witness ==
  \E r, q \in Reqs :
    /\ pc[r] = "InternalError"
    /\ Len(responses[r]) = 1
    /\ pc[q] = "Rejected"

\* All that belongs to request r alone.
Local(r) ==
  <<pc[r], body[r], sessionId[r], sessionData[r], newSession[r], stage[r],
    stageRuns[r], saveCalls[r], saveState[r], responses[r]>>

\* Where an accepted request stands, from the state of its own stages and
\* of its own save alone.
OwnOutcome(r) ==
  CASE stage[r].compress = "running" -> "Compressing"
    [] stage[r].compress = "failed" -> "ProcessingFailed"
    [] stage[r].compress = "done" /\ stage[r].extractAudio = "running" -> "Extracting"
    [] stage[r].compress = "done" /\ stage[r].extractAudio = "failed" -> "ProcessingFailed"
    [] stage[r].extractAudio = "done" /\ saveState[r] = "pending" -> "Saving"
    [] stage[r].extractAudio = "done" /\ saveState[r] = "resolved" -> "Persisted"
    [] stage[r].extractAudio = "done" /\ saveState[r] = "rejected" -> "PersistenceFailed"
    [] OTHER -> "none"

\* C12: a step changes the state of at most one request, so no stage
\* failure or flag update of one request changes the flags, the outcome or
\* the response of another; and the flags, the outcome and the reported
\* record of an accepted request are those that the success or failure of
\* its own stages and of its own save determine.
C12_RequestsIndependent ==
  /\ [][\A r, q \in Reqs :
          (r # q /\ Local(r)' # Local(r)) => Local(q)' = Local(q)]_vars
  /\ [](\A r \in Reqs :
          sessionData[r] # <<>> =>
            /\ Media(r) = [compressed |-> stage[r].compress = "done",
                           audioExtracted |-> stage[r].extractAudio = "done"]
            /\ pc[r] = OwnOutcome(r)
            /\ sessionData[r][1].userId = Trim(body[r][1].userId.str)
            /\ pc[r] \in {"ProcessingFailed", "PersistenceFailed"} =>
                 /\ Reply(r).sessionData = sessionData[r][1]
                 /\ Reply(r).sessionId = sessionId[r][1]
            /\ pc[r] = "Persisted" =>
                 /\ Reply(r).sessionData = newSession[r][1]
                 /\ Reply(r).sessionId = sessionId[r][1]
                 /\ Reply(r).sessionData.media = Media(r))

\* C12 witness: of two requests in flight together, one failed in its
\* compression while the other is in its extraction with compressed true.
C12_Witness ==
  \E r, q \in Reqs :
    /\ pc[r] = "ProcessingFailed"
    /\ stage[r].compress = "failed"
    /\ Media(r).compressed = FALSE
    /\ pc[q] = "Extracting"
    /\ Media(q).compressed = TRUE

\* The fields of a record that the pipeline is not to touch.
Frame(d) == <<d.userId, d.startTime, d.endTime, d.createdAt>>

\* C13: the record is constructed with the trimmed userId, the two parsed
\* times and the construction time as createdAt; in every later step these
\* four fields keep their values, and the Session document and every
\* response that carries the record have the same four values.
C13_FrameOfRecord ==
  /\ [][\A r \in Reqs :
          /\ (sessionData[r] = <<>> /\ sessionData'[r] # <<>>) =>
               Frame(sessionData'[r][1]) =
                 <<Trim(body[r][1].userId.str), NewDate(body[r][1].startTime),
                   NewDate(body[r][1].endTime), now>>
          /\ sessionData[r] # <<>> =>
               /\ sessionData'[r] # <<>>
               /\ Frame(sessionData'[r][1]) = Frame(sessionData[r][1])]_vars
  /\ [](\A r \in Reqs :
          /\ newSession[r] # <<>> =>
               Frame(newSession[r][1]) = Frame(sessionData[r][1])
          /\ \A i \in 1..Len(responses[r]) :
               "sessionData" \in DOMAIN responses[r][i] =>
                 Frame(responses[r][i].sessionData) = Frame(sessionData[r][1]))

\* C13 witness: a request was persisted after the clock had moved on from
\* its createdAt.
C13_Witness ==
  \E r \in Reqs :
    /\ pc[r] = "Persisted"
    /\ sessionData[r][1].createdAt < now
    /\ Reply(r).sessionData.createdAt = sessionData[r][1].createdAt

\* C14: each stage of a request is called at most once and save() at most
\* once, and after the request has ended, also in a failure, none of them
\* is called again.
C14_NoRetry ==
  /\ [](\A r \in Reqs :
          /\ stageRuns[r].compress <= 1
          /\ stageRuns[r].extractAudio <= 1
          /\ saveCalls[r] <= 1)
  /\ [][\A r \in Reqs :
          (\/ pc[r] \in Terminal
           \/ stage[r].compress = "failed"
           \/ stage[r].extractAudio = "failed"
           \/ saveState[r] = "rejected") =>
            /\ stageRuns'[r] = stageRuns[r]
            /\ saveCalls'[r] = saveCalls[r]
            /\ stage'[r] = stage[r]
            /\ saveState'[r] = saveState[r]]_vars

\* C14 witness: one request ended with its extraction failed, another with
\* its save failed, each stage and save called once.
C14_Witness ==
  \E r, q \in Reqs :
    /\ stage[r].extractAudio = "failed"
    /\ stageRuns[r] = [compress |-> 1, extractAudio |-> 1]
    /\ saveCalls[r] = 0
    /\ saveState[q] = "rejected"
    /\ stageRuns[q] = [compress |-> 1, extractAudio |-> 1]
    /\ saveCalls[q] = 1

InPipeline(r) == pc[r] \in {"Compressing", "Extracting", "Saving"}

\* C15: a request that awaits a stage leaves that await only by the
\* settling of the stage (there is no timeout and no cancellation) and has
\* sent no response while it is in its pipeline; and with the stages of
\* request 1 free never to complete, every other received request still
\* reaches a terminal state.
C15_NoTimeoutNoBlocking ==
  /\ [][\A r \in Reqs :
          /\ (pc[r] = "Compressing" /\ pc'[r] # "Compressing") =>
               (stage[r].compress = "running"
                /\ stage'[r].compress \in {"done", "failed"})
          /\ (pc[r] = "Extracting" /\ pc'[r] # "Extracting") =>
               (stage[r].extractAudio = "running"
                /\ stage'[r].extractAudio \in {"done", "failed"})]_vars
  /\ [](\A r \in Reqs : InPipeline(r) => responses[r] = <<>>)
  /\ \A q \in Reqs \ {1} : (pc[q] = "Received") ~> (pc[q] \in Terminal)

\* C15 witness: request 1 still awaits its compression, with no response,
\* after the clock has moved on and another request has been persisted.
C15_Witness ==
  \E q \in Reqs \ {1} :
    /\ pc[1] = "Compressing"
    /\ responses[1] = <<>>
    /\ sessionData[1][1].createdAt < now
    /\ pc[q] = "Persisted"

\* The record d is well formed for the input userId u: its end lies after
\* its start by at most eight hours, and its userId is non-empty, free of
\* surrounding whitespace and the trimmed u.
WellFormed(d, u) ==
  /\ d.startTime.valid /\ d.endTime.valid
  /\ d.endTime.ms > d.startTime.ms
  /\ d.endTime.ms - d.startTime.ms <= EightHours
  /\ d.userId # <<>>
  /\ d.userId[1] \notin WhiteSpace
  /\ d.userId[Len(d.userId)] \notin WhiteSpace
  /\ IsText(u) /\ d.userId = Trim(u.str)

\* C16: every constructed record, the Session document built from it and
\* every document of the store is well formed for the userId of its
\* request.
C16_RecordWellFormed ==
  /\ \A r \in Reqs :
       /\ sessionData[r] # <<>> => WellFormed(sessionData[r][1], body[r][1].userId)
       /\ newSession[r] # <<>> => WellFormed(newSession[r][1], body[r][1].userId)
  /\ \A d \in store :
       \E r \in Reqs : newSession[r] = <<d>> /\ WellFormed(d, body[r][1].userId)

\* C16 witness: a record of exactly eight hours, sent with a padded userId,
\* is in the store with the trimmed userId.
C16_Witness ==
  /\ body[1] = Body(BobPadded, T1000, T1800)
  /\ sessionData[1] # <<>>
  /\ sessionData[1][1].userId = <<"b", "o", "b">>
  /\ sessionData[1][1].endTime.ms - sessionData[1][1].startTime.ms = EightHours
  /\ newSession[1] # <<>>
  /\ newSession[1][1] \in store

\* C17: a request whose save() resolved has exactly the success response,
\* with the _id of its stored document as databaseId; and a response with
\* the error "Failed to save session to database" is sent only for a
\* request whose save() rejected and whose document is not in the store.
C17_SaveReportedFaithfully ==
  \A r \in Reqs :
    /\ saveState[r] = "resolved" =>
         /\ newSession[r][1] \in store
         /\ responses[r] = <<CreatedResponse(sessionId[r][1], newSession[r][1])>>
         /\ Reply(r).status = 201
         /\ "error" \notin DOMAIN Reply(r)
         /\ \E d \in store : d._id = Reply(r).databaseId /\ d = Reply(r).sessionData
    /\ \A i \in 1..Len(responses[r]) :
         ("error" \in DOMAIN responses[r][i]
          /\ responses[r][i].error = "Failed to save session to database") =>
           /\ saveState[r] = "rejected"
           /\ \A d \in store : d._id # newSession[r][1]._id

\* C17 witness: one request's save resolved and another's rejected; the
\* store holds the document of the first alone.
C17_Witness ==
  \E r, q \in Reqs :
    /\ saveState[r] = "resolved" /\ Reply(r).status = 201
    /\ saveState[q] = "rejected"
    /\ Reply(q).error = "Failed to save session to database"
    /\ store = {newSession[r][1]}
    /\ newSession[q][1]._id # newSession[r][1]._id

\* The terminal outcome a response reports.
OutcomeOf(resp) ==
  CASE resp.status = 201 -> "Persisted"
    [] resp.status = 400 -> "Rejected"
    [] resp.status = 500 /\ resp.error = "Media processing failed" -> "ProcessingFailed"
    [] resp.status = 500 /\ resp.error = "Failed to save session to database" -> "PersistenceFailed"
    [] resp.status = 500 /\ resp.error = "Internal server error" -> "InternalError"
    [] OTHER -> "none"

\* C18: a request has no response before it is terminal and exactly one,
\* the response of its outcome, once it is; and a terminal request never
\* changes its outcome, gets no further response, and runs no stage and
\* no save.
C18_OneResponseOneOutcome ==
  /\ [](\A r \in Reqs :
          /\ pc[r] \notin Terminal => responses[r] = <<>>
          /\ pc[r] \in Terminal =>
               (Len(responses[r]) = 1 /\ OutcomeOf(Reply(r)) = pc[r]))
  /\ [][\A r \in Reqs :
          pc[r] \in Terminal =>
            /\ pc'[r] = pc[r]
            /\ responses'[r] = responses[r]
            /\ stage'[r] = stage[r]
            /\ saveState'[r] = saveState[r]]_vars

\* C18 witness: the five terminal outcomes cannot meet in one state of
\* two requests; here one request was answered by the outer catch and the
\* other by the catch of the save, each once.
C18_Witness ==
  \E r, q \in Reqs :
    /\ pc[r] = "InternalError" /\ Len(responses[r]) = 1
    /\ pc[q] = "PersistenceFailed" /\ Len(responses[q]) = 1
    /\ OutcomeOf(Reply(q)) = "PersistenceFailed"

BothStagesDone(r) == stage[r] = [compress |-> "done", extractAudio |-> "done"]

\* C19: save() is called and the store is written for a request only
\* after both of its stages resolved; every document of the store has both
\* flags true and is the one document of one request whose save()
\* resolved; and a step adds at most one document, that of a request at
\* its save.
C19_StoreOnlyAfterBothStages ==
  /\ [](\A r \in Reqs : saveCalls[r] > 0 => BothStagesDone(r))
  /\ [](\A d \in store :
          /\ d.media = BothFlags
          /\ \E r \in Reqs :
               /\ newSession[r] = <<d>>
               /\ BothStagesDone(r)
               /\ saveState[r] = "resolved"
               /\ saveCalls[r] = 1
               /\ \A q \in Reqs \ {r} : newSession[q] # <<d>>)
  /\ [](Cardinality(store) = Cardinality({r \in Reqs : saveState[r] = "resolved"}))
  /\ [][store' # store =>
          \E r \in Reqs :
            /\ pc[r] = "Saving" /\ BothStagesDone(r)
            /\ newSession[r][1] \notin store
            /\ newSession[r][1].media = BothFlags
            /\ store' = store \cup {newSession[r][1]}]_vars

\* C19 witness: of two requests that passed the validation, one failed in
\* its extraction and one was saved; the store holds one document, with
\* both flags true.
C19_Witness ==
  \E r, q \in Reqs :
    /\ stage[r] = [compress |-> "done", extractAudio |-> "failed"]
    /\ saveCalls[r] = 0
    /\ BothStagesDone(q) /\ saveState[q] = "resolved"
    /\ Cardinality(store) = 1
    /\ \A d \in store : d.media = BothFlags

====
